---- MODULE Spec2Model ----
(***************************************************************************)
(* Model of checkov's Terraform registry module loader                     *)
(* (checkov/terraform/module_loading/loaders/registry_loader.py).          *)
(*                                                                         *)
(* Strings are sequences of tokens.  A token is either one character of    *)
(* interest ("/", ".") or a run of characters that the code only ever      *)
(* tests as a unit ("github.com", "app.terraform.io", "a", "1.0", ...).    *)
(* None is the one-token string NONE, which no input contains.             *)
(***************************************************************************)
EXTENDS Integers, Sequences, FiniteSets, TLC

\* ------------------------------------------------------------------ bounds
MaxSrcLen == 4
MaxCalls == 2
MaxClauses == 2
MaxVersions == 2
MaxServed == 2
MaxHops == 6

\* --------------------------------------------------------------- constants
NONE == <<"<None>">>
EMPTY == <<>>
SLASH == "/"
TFC_HOST_NAME == "app.terraform.io"
PUBLIC_REGISTRY_URL_PREFIX == "https://registry.terraform.io/v1/modules"
PRIVATE_REGISTRY_URL_PREFIX == "https://app.terraform.io/api/registry/v1/modules"
ENV_REGISTRY_URL_PREFIX == "https://registry.example.test/v1/modules"
ARCHIVE_URL_PREFIX == "https://archivist.terraform.io/v1/object"
VCS_PREFIXES_NoBitbucket == {"github.com", "git::"}
VCS_PREFIXES == {"github.com", "bitbucket.org", "git::"}
ROOT_DIR == "root"
EXTERNAL_MODULES_FOLDER_NAME == ".external_modules"
HTTP_OK == 200
HTTP_NO_CONTENT == 204
MAX_REDIRECT_HOPS == 5

\* ---------------------------------------------------------- string helpers
\* str.startswith(tok) for a prefix the tokenisation keeps whole
StartsWith(s, tok) == Len(s) >= 1 /\ s[1] = tok

\* str.startswith(tuple)
StartsWithAny(s, toks) == \E t \in toks : StartsWith(s, t)

\* str.find(sep): the first index at which sep occurs in s, 0 when it does not
Find(s, sep) ==
    LET hits == {i \in 1..(Len(s) - Len(sep) + 1) : SubSeq(s, i, i + Len(sep) - 1) = sep}
    IN  IF hits = {} THEN 0 ELSE CHOOSE i \in hits : \A j \in hits : i <= j

\* str.split(sep): the pieces between the non-overlapping occurrences of sep,
\* scanned left to right
RECURSIVE Split(_, _)
Split(s, sep) ==
    LET i == Find(s, sep)
    IN  IF i = 0 THEN <<s>>
        ELSE <<SubSeq(s, 1, i - 1)>> \o Split(SubSeq(s, i + Len(sep), Len(s)), sep)

\* str.replace(old, new): every non-overlapping occurrence, left to right
RECURSIVE Replace(_, _, _)
Replace(s, old, new) ==
    LET i == Find(s, old)
    IN  IF i = 0 THEN s
        ELSE SubSeq(s, 1, i - 1) \o new \o Replace(SubSeq(s, i + Len(old), Len(s)), old, new)

\* sep.join(parts)
RECURSIVE Join(_, _)
Join(sep, parts) ==
    IF Len(parts) = 0 THEN EMPTY
    ELSE IF Len(parts) = 1 THEN parts[1]
    ELSE parts[1] \o sep \o Join(sep, Tail(parts))

\* os.path.join (posix): an absolute component discards what precedes it, an
\* empty component adds nothing but a separator after a non-empty path
PathJoin2(a, b) ==
    IF StartsWith(b, SLASH) THEN b
    ELSE IF a = EMPTY \/ a[Len(a)] = SLASH THEN a \o b
    ELSE a \o <<SLASH>> \o b

RECURSIVE PathJoinFrom(_, _)
PathJoinFrom(acc, parts) ==
    IF Len(parts) = 0 THEN acc ELSE PathJoinFrom(PathJoin2(acc, parts[1]), Tail(parts))

PathJoin(parts) == PathJoinFrom(parts[1], Tail(parts))

\* all strings over alphabet of length lo..hi
StringsOver(alphabet, lo, hi) == UNION {[1..n -> alphabet] : n \in lo..hi}

\* ------------------------------------------------ versions (versions_parser)
\* The version strings the registry serves, with packaging.version.parse as
\* the table from a version string to its release tuple.
VERSION_KEY ==
    ("1.0" :> <<1, 0>>) @@ ("1.1" :> <<1, 1>>) @@ ("2.0" :> <<2, 0>>)

VERSIONS == DOMAIN VERSION_KEY
OPERATORS == {"=", "!=", ">", ">=", "<", "<=", "~>"}
LATEST == <<"latest">>

\* release tuples compared segment by segment, most significant first
VersionLess(a, b) ==
    LET x == VERSION_KEY[a]
        y == VERSION_KEY[b]
    IN  x[1] < y[1] \/ (x[1] = y[1] /\ x[2] < y[2])

VersionEq(a, b) == VERSION_KEY[a] = VERSION_KEY[b]

\* VersionConstraint.versions_matching: "~> M.m" allows the last segment to grow
versions_matching(c, v) ==
    CASE c.op = "="  -> VersionEq(v, c.v)
      [] c.op = "!=" -> ~VersionEq(v, c.v)
      [] c.op = ">"  -> VersionLess(c.v, v)
      [] c.op = ">=" -> ~VersionLess(v, c.v)
      [] c.op = "<"  -> VersionLess(v, c.v)
      [] c.op = "<=" -> ~VersionLess(c.v, v)
      [] c.op = "~>" -> ~VersionLess(v, c.v) /\ VERSION_KEY[v][1] = VERSION_KEY[c.v][1]
      [] OTHER -> FALSE

\* one clause of a constraint expression: "<op> <version>" or a bare version,
\* which pins it; text that is neither yields no clause
ParseClause(part) ==
    IF Len(part) = 2 /\ part[1] \in OPERATORS /\ part[2] \in VERSIONS
        THEN <<[op |-> part[1], v |-> part[2]]>>
    ELSE IF Len(part) = 1 /\ part[1] \in VERSIONS
        THEN <<[op |-> "=", v |-> part[1]]>>
    ELSE <<>>

RECURSIVE ParseClauses(_)
ParseClauses(parts) ==
    IF Len(parts) = 0 THEN <<>> ELSE ParseClause(parts[1]) \o ParseClauses(Tail(parts))

\* get_version_constraints: the comma-separated clauses of the expression
get_version_constraints(raw_version) == ParseClauses(Split(raw_version, <<",">>))

\* insertion of v into a descending list, after the entries that are not older
RECURSIVE InsertDescending(_, _)
InsertDescending(sorted, v) ==
    IF Len(sorted) = 0 THEN <<v>>
    ELSE IF VersionLess(sorted[1], v) THEN <<v>> \o sorted
    ELSE <<sorted[1]>> \o InsertDescending(Tail(sorted), v)

\* order_versions_in_descending_order: a stable sort, newest first
RECURSIVE order_versions_in_descending_order(_)
order_versions_in_descending_order(vs) ==
    IF Len(vs) = 0 THEN <<>>
    ELSE InsertDescending(order_versions_in_descending_order(SubSeq(vs, 1, Len(vs) - 1)),
                          vs[Len(vs)])

\* ------------------------------------------------------ RegistryLoader: pure
\* The loader instance after __init__ (and the base class's): discover() reads
\* REGISTRY_URL_PREFIX from the environment, the other fields start empty.
NewLoader(prefix) ==
    [module_source |-> EMPTY, version |-> LATEST, dest_dir |-> EMPTY,
     inner_module |-> NONE, REGISTRY_URL_PREFIX |-> prefix,
     module_version_url |-> EMPTY, best_version |-> EMPTY]

\* truthiness of an Optional[str]
Truthy(s) == s # NONE /\ s # EMPTY

\* _process_inner_registry_module
_process_inner_registry_module(l) ==
    LET module_source_components == Split(l.module_source, <<SLASH, SLASH>>)
    IN  IF Len(module_source_components) > 1
        THEN [l EXCEPT !.module_source = module_source_components[1],
                       !.dest_dir = Split(l.dest_dir, <<SLASH, SLASH>>)[1],
                       !.inner_module = module_source_components[2]]
        ELSE l

\* the hostname test of _is_matching_loader
IsPrivateRegistrySource(module_source) == StartsWith(module_source, TFC_HOST_NAME)

\* the hostname removal of _is_matching_loader
StripHostName(module_source) == Replace(module_source, <<TFC_HOST_NAME, SLASH>>, EMPTY)

\* _is_matching_loader: the choice of the registry endpoint
SelectEndpoint(l) ==
    IF IsPrivateRegistrySource(l.module_source)
    THEN [l EXCEPT !.REGISTRY_URL_PREFIX = PRIVATE_REGISTRY_URL_PREFIX,
                   !.module_source = StripHostName(l.module_source)]
    ELSE [l EXCEPT !.REGISTRY_URL_PREFIX = PUBLIC_REGISTRY_URL_PREFIX]

\* "/".join((REGISTRY_URL_PREFIX, module_source, "versions"))
VersionsUrl(prefix, module_source) ==
    Join(<<SLASH>>, << <<prefix>>, module_source, <<"versions">> >>)

\* "/".join((REGISTRY_URL_PREFIX, module_source, best_version, "download"))
DownloadUrl(prefix, module_source, best_version) ==
    Join(<<SLASH>>, << <<prefix>>, module_source, best_version, <<"download">> >>)

\* module_version_url.startswith(REGISTRY_URL_PREFIX)
UrlHasPrefix(url, prefix) == StartsWith(url, prefix)

\* os.path.join(root_dir, external_modules_folder_name, TFC_HOST_NAME,
\*              *module_source.split("/"), best_version)
RegistryDestDir(module_source, best_version) ==
    PathJoin(<< <<ROOT_DIR>>, <<EXTERNAL_MODULES_FOLDER_NAME>>, <<TFC_HOST_NAME>> >>
             \o Split(module_source, <<SLASH>>) \o <<best_version>>)

\* num_of_matches carried over to the next version instead of being reset
KeepNumOfMatches(num_of_matches) == num_of_matches

\* _find_best_version: num_of_matches after a version that did not match
ResetNumOfMatches(num_of_matches) == 0

\* _find_best_version: the inner loop over the clauses, from clause i on
RECURSIVE CountMatches(_, _, _, _)
CountMatches(version_constraints, version, i, num_of_matches) ==
    IF i > Len(version_constraints) THEN num_of_matches
    ELSE IF ~versions_matching(version_constraints[i], version) THEN num_of_matches
    ELSE CountMatches(version_constraints, version, i + 1, num_of_matches + 1)

\* _find_best_version: the outer loop over the cached versions, from entry j on
RECURSIVE ScanVersions(_, _, _, _)
ScanVersions(versions_by_size, version_constraints, j, num_of_matches) ==
    IF j > Len(versions_by_size) THEN LATEST
    ELSE LET n == CountMatches(version_constraints, versions_by_size[j], 1, num_of_matches)
         IN  IF n = Len(version_constraints) THEN <<versions_by_size[j]>>
             ELSE ScanVersions(versions_by_size, version_constraints, j + 1,
                               ResetNumOfMatches(n))

\* modules_versions_cache.get(module_version_url, [])
CacheGet(cache, url) == IF url \in DOMAIN cache THEN cache[url] ELSE <<>>

\* the last entry of the list taken in place of the first
OldestEntry(versions_by_size) == <<versions_by_size[Len(versions_by_size)]>>

\* _find_best_version: what "latest" is replaced by, versions_by_size[0]
NewestEntry(versions_by_size) == <<versions_by_size[1]>>

\* _find_best_version: the exception it raises (NONE when it returns), the
\* constraint it leaves in self.version and the version it returns
_find_best_version(cache, l) ==
    LET versions_by_size == CacheGet(cache, l.module_version_url)
    IN  IF l.version = LATEST /\ versions_by_size = <<>>
        THEN [raised |-> <<"IndexError">>, version |-> l.version, best |-> EMPTY]
        ELSE LET version == IF l.version = LATEST THEN NewestEntry(versions_by_size)
                            ELSE l.version
             IN  [raised |-> NONE, version |-> version,
                  best |-> ScanVersions(versions_by_size,
                                        get_version_constraints(version), 1, 0)]

\* os.path.exists on the module directories created so far: a directory
\* exists when it was created or lies above one that was
Exists(dirs, path) ==
    /\ path # EMPTY
    /\ \E d \in dirs :
          \/ d = path
          \/ /\ Len(d) > Len(path)
             /\ SubSeq(d, 1, Len(path)) = path
             /\ (d[Len(path) + 1] = SLASH \/ path[Len(path)] = SLASH)

\* ModuleContent(dir, next_url, failed_url)
ModuleContent(dir, next_url, failed_url) ==
    [outcome |-> "returned", dir |-> dir, next_url |-> next_url,
     failed_url |-> failed_url, exc |-> NONE]

\* a call that ends without a return statement
ReturnsNothing ==
    [outcome |-> "returned_none", dir |-> NONE, next_url |-> NONE,
     failed_url |-> NONE, exc |-> NONE]

\* a call that ends with an exception leaving the loader
Raises(exc) ==
    [outcome |-> "raised", dir |-> NONE, next_url |-> NONE,
     failed_url |-> NONE, exc |-> exc]

NoResult ==
    [outcome |-> "pending", dir |-> NONE, next_url |-> NONE,
     failed_url |-> NONE, exc |-> NONE]

\* ------------------------------------------------------------------- state
VARIABLES
    loader,                  \* the module-level RegistryLoader instance's fields
    modules_versions_cache,  \* RegistryLoader.modules_versions_cache
    disk,                    \* the module directories that exist
    pc,                      \* where each worker is in load()
    ref,                     \* the reference each worker is resolving
    calls,                   \* the number of load() calls each worker has made
    matched,                 \* what _is_matching_loader returned to each worker
    result,                  \* what _load_module returned to each worker
    response,                \* each worker's local: the last response's payload
    requests,                \* the network requests of each worker's current call
    selected_from,           \* the version list each worker selected its best version from
    fetch_outcome,           \* what the content fetcher reported to each worker
    download_response,       \* each worker's local: the download response's status and
                             \* X-Terraform-Get header, and whether the request raised
                             \* HTTPError
    versions_response        \* the kind of answer each worker's list-versions request got

vars == <<loader, modules_versions_cache, disk, pc, ref, calls, matched, result,
          response, requests, selected_from, fetch_outcome, download_response,
          versions_response>>

WORKERS == {1, 2}

\* no download request was answered yet
NoDownload == [status_code |-> 0, raised |-> FALSE, header |-> EMPTY]

NoReference == [source |-> EMPTY, version |-> LATEST, dest_dir |-> EMPTY, inner_module |-> NONE]

EmptyCache == [u \in {} |-> <<>>]

\* the caller's destination directory for a source, before the loader refines it
CallerDestDir(source) == PathJoin(<< <<ROOT_DIR>>, <<EXTERNAL_MODULES_FOLDER_NAME>>, source >>)

\* ------------------------------------------------------------------ inputs
\* the sources the resolving workers are given
SOURCES ==
    { <<"a">>,
      <<"a", SLASH, SLASH, "m">>,
      <<TFC_HOST_NAME, SLASH, "a">>,
      <<"git::", "a">> }

CONSTRAINTS == { LATEST, <<"~>", "1.0">>, <<">=", "1.1", ",", "<", "2.0">> }

REFERENCES ==
    { [source |-> s, version |-> v, dest_dir |-> CallerDestDir(s), inner_module |-> NONE] :
        s \in SOURCES, v \in CONSTRAINTS }

\* what the registry may answer to the list-versions request
VERSION_RESPONSES ==
    { [kind |-> k, versions |-> <<>>] : k \in {"http_error", "not_json", "empty_modules"} }
    \cup { [kind |-> "ok", versions |-> vs] : vs \in StringsOver(VERSIONS, 0, MaxServed) }

\* what the registry may answer to the download request
DOWNLOAD_HEADERS ==
    { <<ARCHIVE_URL_PREFIX, SLASH, "object">>, <<"https://example.test/next">>, EMPTY }

\* the statuses the registry may answer the download request with
DOWNLOAD_STATUSES == {HTTP_OK, HTTP_NO_CONTENT, 404}

\* Response.raise_for_status raises HTTPError for the 4xx and 5xx statuses
RaisesForStatus(status) == status >= 400 /\ status < 600

\* ------------------------------------------------------------------ actions
Init ==
    /\ loader = NewLoader(PUBLIC_REGISTRY_URL_PREFIX)
    /\ modules_versions_cache = EmptyCache
    /\ disk = {}
    /\ pc = [w \in WORKERS |-> "idle"]
    /\ ref = [w \in WORKERS |-> NoReference]
    /\ calls = [w \in WORKERS |-> 0]
    /\ matched = [w \in WORKERS |-> "none"]
    /\ result = [w \in WORKERS |-> NoResult]
    /\ response = [w \in WORKERS |-> EMPTY]
    /\ requests = [w \in WORKERS |-> {}]
    /\ selected_from = [w \in WORKERS |-> NONE]
    /\ fetch_outcome = [w \in WORKERS |-> "none"]
    /\ download_response = [w \in WORKERS |-> NoDownload]
    /\ versions_response = [w \in WORKERS |-> "none"]

\* worker w may start another resolution
CanLoad(w) == pc[w] \in {"idle", "done"} /\ calls[w] < MaxCalls

\* ModuleLoader.load up to its call of _is_matching_loader: the reference's
\* fields are installed in the instance
Load(w, r) ==
    /\ loader' = [loader EXCEPT !.module_source = r.source, !.version = r.version,
                                !.dest_dir = r.dest_dir, !.inner_module = r.inner_module]
    /\ ref' = [ref EXCEPT ![w] = r]
    /\ calls' = [calls EXCEPT ![w] = @ + 1]
    /\ pc' = [pc EXCEPT ![w] = "is_matching_loader"]
    /\ matched' = [matched EXCEPT ![w] = "none"]
    /\ result' = [result EXCEPT ![w] = NoResult]
    /\ response' = [response EXCEPT ![w] = EMPTY]
    /\ requests' = [requests EXCEPT ![w] = {}]
    /\ selected_from' = [selected_from EXCEPT ![w] = NONE]
    /\ fetch_outcome' = [fetch_outcome EXCEPT ![w] = "none"]
    /\ download_response' = [download_response EXCEPT ![w] = NoDownload]
    /\ versions_response' = [versions_response EXCEPT ![w] = "none"]
    /\ UNCHANGED <<modules_versions_cache, disk>>

\* _is_matching_loader returns m; on True load() goes on to _load_module
ReturnMatch(w, m) ==
    /\ matched' = [matched EXCEPT ![w] = m]
    /\ pc' = [pc EXCEPT ![w] = IF m = "true" THEN "load_module" ELSE "done"]

\* an exception leaves load()
Escape(w, exc) ==
    /\ result' = [result EXCEPT ![w] = Raises(exc)]
    /\ pc' = [pc EXCEPT ![w] = "done"]

\* _is_matching_loader: the version-control prefixes, then the inner module
CheckSourcePrefix(w) ==
    /\ pc[w] = "is_matching_loader"
    /\ IF StartsWithAny(loader.module_source, VCS_PREFIXES)
       THEN /\ ReturnMatch(w, "false")
            /\ UNCHANGED loader
       ELSE /\ loader' = _process_inner_registry_module(loader)
            /\ pc' = [pc EXCEPT ![w] = "endpoint"]
            /\ UNCHANGED matched
    /\ UNCHANGED <<modules_versions_cache, disk, ref, calls, result, response,
                   requests, selected_from, fetch_outcome, download_response,
                   versions_response>>

\* _is_matching_loader: private or public registry
ChooseEndpoint(w) ==
    /\ pc[w] = "endpoint"
    /\ loader' = SelectEndpoint(loader)
    /\ pc' = [pc EXCEPT ![w] = "versions_url"]
    /\ UNCHANGED <<modules_versions_cache, disk, ref, calls, matched, result, response,
                   requests, selected_from, fetch_outcome, download_response,
                   versions_response>>

\* BuildVersionsUrl without the cache lookup: the list is always fetched
BuildVersionsUrl_NoCacheLookup(w) ==
    /\ pc[w] = "versions_url"
    /\ LET url == VersionsUrl(loader.REGISTRY_URL_PREFIX, loader.module_source)
       IN  /\ loader' = [loader EXCEPT !.module_version_url = url]
           /\ IF ~UrlHasPrefix(url, loader.REGISTRY_URL_PREFIX)
              THEN ReturnMatch(w, "false")
              ELSE /\ pc' = [pc EXCEPT ![w] = "cache_available_versions"]
                   /\ UNCHANGED matched
    /\ UNCHANGED <<modules_versions_cache, disk, ref, calls, result, response,
                   requests, selected_from, fetch_outcome, download_response,
                   versions_response>>

\* _is_matching_loader: the versions URL, its prefix check and the cache lookup
BuildVersionsUrl(w) ==
    /\ pc[w] = "versions_url"
    /\ LET url == VersionsUrl(loader.REGISTRY_URL_PREFIX, loader.module_source)
       IN  /\ loader' = [loader EXCEPT !.module_version_url = url]
           /\ IF ~UrlHasPrefix(url, loader.REGISTRY_URL_PREFIX)
              THEN ReturnMatch(w, "false")
              ELSE IF url \in DOMAIN modules_versions_cache
              THEN ReturnMatch(w, "true")
              ELSE /\ pc' = [pc EXCEPT ![w] = "cache_available_versions"]
                   /\ UNCHANGED matched
    /\ UNCHANGED <<modules_versions_cache, disk, ref, calls, result, response,
                   requests, selected_from, fetch_outcome, download_response,
                   versions_response>>

\* _cache_available_versions: the list-versions request and its body
RequestVersions(w) ==
    /\ pc[w] = "cache_available_versions"
    /\ requests' = [requests EXCEPT ![w] = @ \cup {loader.module_version_url}]
    /\ \E resp \in VERSION_RESPONSES :
          /\ versions_response' = [versions_response EXCEPT ![w] = resp.kind]
          /\ CASE resp.kind = "ok" ->
                     /\ response' = [response EXCEPT ![w] = resp.versions]
                     /\ pc' = [pc EXCEPT ![w] = "cache_write"]
                     /\ UNCHANGED <<matched, result>>
               [] resp.kind = "http_error" ->
                     /\ ReturnMatch(w, "false")
                     /\ UNCHANGED <<response, result>>
               [] resp.kind = "not_json" ->
                     /\ Escape(w, <<"JSONDecodeError">>)
                     /\ UNCHANGED <<response, matched>>
               [] OTHER ->
                     /\ Escape(w, <<"IndexError">>)
                     /\ UNCHANGED <<response, matched>>
    /\ UNCHANGED <<loader, modules_versions_cache, disk, ref, calls, selected_from,
                   fetch_outcome, download_response>>

\* modules_versions_cache[k] = v
CachePut(cache, k, v) == [u \in DOMAIN cache \cup {k} |-> IF u = k THEN v ELSE cache[u]]

\* _cache_available_versions: the ordered list is stored under the versions URL
WriteCache(w) ==
    /\ pc[w] = "cache_write"
    /\ modules_versions_cache' =
          CachePut(modules_versions_cache, loader.module_version_url,
                   order_versions_in_descending_order(response[w]))
    /\ pc' = [pc EXCEPT ![w] = "find_best_version"]
    /\ UNCHANGED <<loader, disk, ref, calls, matched, result, response, requests,
                   selected_from, fetch_outcome, download_response,
                   versions_response>>

\* _is_matching_loader after the fetch: best version, destination directory,
\* the directory test and the second cache lookup
FindBestVersion(w) ==
    /\ pc[w] = "find_best_version"
    /\ LET found == _find_best_version(modules_versions_cache, loader)
           dest_dir == IF Truthy(loader.inner_module) THEN loader.dest_dir
                       ELSE RegistryDestDir(loader.module_source, found.best)
       IN  IF found.raised # NONE
           THEN /\ Escape(w, found.raised)
                /\ UNCHANGED <<loader, matched, selected_from>>
           ELSE /\ loader' = [loader EXCEPT !.version = found.version,
                                            !.best_version = found.best,
                                            !.dest_dir = dest_dir]
                /\ selected_from' = [selected_from EXCEPT ![w] =
                      CacheGet(modules_versions_cache, loader.module_version_url)]
                /\ IF Exists(disk, dest_dir)
                      \/ loader.module_version_url \in DOMAIN modules_versions_cache
                   THEN ReturnMatch(w, "true")
                   ELSE ReturnMatch(w, "false")
                /\ UNCHANGED result
    /\ UNCHANGED <<modules_versions_cache, disk, ref, calls, response, requests,
                   fetch_outcome, download_response,
                   versions_response>>

\* CheckDestDir without the early return: the download is always requested
CheckDestDir_AlwaysDownload(w) ==
    /\ pc[w] = "load_module"
    /\ pc' = [pc EXCEPT ![w] = "download"]
    /\ UNCHANGED <<loader, modules_versions_cache, disk, ref, calls, matched, result,
                   response, requests, selected_from, fetch_outcome, download_response,
                   versions_response>>

\* _load_module: an existing destination directory is returned as it is
CheckDestDir(w) ==
    /\ pc[w] = "load_module"
    /\ IF Exists(disk, loader.dest_dir)
       THEN /\ result' = [result EXCEPT ![w] = ModuleContent(loader.dest_dir, NONE, NONE)]
            /\ pc' = [pc EXCEPT ![w] = "done"]
       ELSE /\ pc' = [pc EXCEPT ![w] = "download"]
            /\ UNCHANGED result
    /\ UNCHANGED <<loader, modules_versions_cache, disk, ref, calls, matched, response,
                   requests, selected_from, fetch_outcome, download_response,
                   versions_response>>

\* _load_module: what follows the download request, given whether it raised
\* HTTPError, the response's status and its X-Terraform-Get header ('' when
\* absent); the except branch that does not return falls off the end of the
\* function
AfterDownload(w, raised, status, header) ==
    /\ download_response' = [download_response EXCEPT ![w] =
           [status_code |-> status, raised |-> raised, header |-> header]]
    /\ IF raised
       THEN /\ result' = [result EXCEPT ![w] =
                  IF status # HTTP_OK /\ status # HTTP_NO_CONTENT
                  THEN ModuleContent(NONE, NONE, NONE)
                  ELSE ReturnsNothing]
            /\ pc' = [pc EXCEPT ![w] = "done"]
            /\ UNCHANGED response
       ELSE IF StartsWith(header, ARCHIVE_URL_PREFIX)
       THEN /\ response' = [response EXCEPT ![w] = header]
            /\ pc' = [pc EXCEPT ![w] = "extract"]
            /\ UNCHANGED result
       ELSE /\ result' = [result EXCEPT ![w] = ModuleContent(NONE, header, NONE)]
            /\ pc' = [pc EXCEPT ![w] = "done"]
            /\ UNCHANGED response

\* _load_module: the download request
RequestDownload(w) ==
    /\ pc[w] = "download"
    /\ requests' = [requests EXCEPT ![w] = @ \cup
          {DownloadUrl(loader.REGISTRY_URL_PREFIX, loader.module_source, loader.best_version)}]
    /\ \E status \in DOWNLOAD_STATUSES, header \in DOWNLOAD_HEADERS :
          AfterDownload(w, RaisesForStatus(status), status, header)
    /\ UNCHANGED <<loader, modules_versions_cache, disk, ref, calls, matched,
                   selected_from, fetch_outcome, versions_response>>

\* RegistryGetter.do_get into temp_dir: what the content fetcher may report
FETCH_OUTCOMES(dirs, temp_dir) ==
    IF Exists(dirs, temp_dir) THEN {"already_exists", "error"} ELSE {"success", "error"}

\* _load_module: the directory returned once the archive is in place;
\* return_dir is bound only when do_get returned
ReturnDir(l, outcome) ==
    IF Truthy(l.inner_module)
    THEN ModuleContent(PathJoin(<<l.dest_dir, l.inner_module>>), NONE, NONE)
    ELSE IF outcome = "success" THEN ModuleContent(l.dest_dir, NONE, NONE)
    ELSE Raises(<<"UnboundLocalError">>)

\* _load_module: fetch and extract the archive into the destination directory
Extract(w) ==
    /\ pc[w] = "extract"
    /\ requests' = [requests EXCEPT ![w] = @ \cup {response[w]}]
    /\ \E outcome \in FETCH_OUTCOMES(disk, loader.dest_dir) :
          /\ fetch_outcome' = [fetch_outcome EXCEPT ![w] = outcome]
          /\ disk' = IF outcome = "success" THEN disk \cup {loader.dest_dir} ELSE disk
          /\ result' = [result EXCEPT ![w] =
                IF outcome = "error"
                THEN ModuleContent(NONE, NONE, loader.module_source)
                ELSE ReturnDir(loader, outcome)]
    /\ pc' = [pc EXCEPT ![w] = "done"]
    /\ UNCHANGED <<loader, modules_versions_cache, ref, calls, matched, response,
                   selected_from, download_response,
                   versions_response>>

\* one step of worker w's load()
Step(w) ==
    \/ CheckSourcePrefix(w)
    \/ ChooseEndpoint(w)
    \/ BuildVersionsUrl(w)
    \/ RequestVersions(w)
    \/ WriteCache(w)
    \/ FindBestVersion(w)
    \/ CheckDestDir(w)
    \/ RequestDownload(w)
    \/ Extract(w)

\* ------------------------------------------------- sequential resolutions
\* one caller resolves references one after the other
Next ==
    \/ CanLoad(1) /\ \E r \in REFERENCES : Load(1, r)
    \/ Step(1)

Spec == Init /\ [][Next]_vars

\* ---------------------------------------------- classification of any source
\* every source string up to MaxSrcLen tokens, resolved by a loader that earlier
\* resolutions (or the environment) left in any of these states
SOURCE_ALPHABET == {"github.com", "bitbucket.org", "git::", TFC_HOST_NAME, SLASH, ".", "a"}

ANY_REFERENCES ==
    { [source |-> s, version |-> LATEST, dest_dir |-> CallerDestDir(s), inner_module |-> NONE] :
        s \in StringsOver(SOURCE_ALPHABET, 1, MaxSrcLen) }

EARLIER_PREFIXES ==
    {PUBLIC_REGISTRY_URL_PREFIX, PRIVATE_REGISTRY_URL_PREFIX, ENV_REGISTRY_URL_PREFIX}

EARLIER_CACHES ==
    { EmptyCache,
      [u \in { VersionsUrl(PUBLIC_REGISTRY_URL_PREFIX, <<"a">>),
               VersionsUrl(PRIVATE_REGISTRY_URL_PREFIX, <<"a">>) } |-> <<"1.1", "1.0">>] }

EARLIER_DISKS == { {}, {RegistryDestDir(<<"a">>, <<"1.1">>)} }

InitClassify ==
    /\ \E prefix \in EARLIER_PREFIXES : loader = NewLoader(prefix)
    /\ modules_versions_cache \in EARLIER_CACHES
    /\ disk \in EARLIER_DISKS
    /\ pc = [w \in WORKERS |-> "idle"]
    /\ ref = [w \in WORKERS |-> NoReference]
    /\ calls = [w \in WORKERS |-> IF w = 1 THEN MaxCalls - 1 ELSE MaxCalls]
    /\ matched = [w \in WORKERS |-> "none"]
    /\ result = [w \in WORKERS |-> NoResult]
    /\ response = [w \in WORKERS |-> EMPTY]
    /\ requests = [w \in WORKERS |-> {}]
    /\ selected_from = [w \in WORKERS |-> NONE]
    /\ fetch_outcome = [w \in WORKERS |-> "none"]
    /\ download_response = [w \in WORKERS |-> NoDownload]
    /\ versions_response = [w \in WORKERS |-> "none"]

\* _is_matching_loader up to its cache lookup
NextClassify ==
    \/ CanLoad(1) /\ \E r \in ANY_REFERENCES : Load(1, r)
    \/ CheckSourcePrefix(1)
    \/ ChooseEndpoint(1)
    \/ BuildVersionsUrl(1)

SpecClassify == InitClassify /\ [][NextClassify]_vars

\* ------------------------------------------ best version of any constraint
\* every constraint of up to MaxClauses clauses against every descending list
\* of up to MaxVersions versions, cached under the versions URL of source "a"
CLAUSES == { <<op, v>> : op \in OPERATORS, v \in VERSIONS }

\* "latest", a pinned version, or one to MaxClauses comma-separated clauses
ANY_CONSTRAINTS ==
    {LATEST} \cup { <<v>> : v \in VERSIONS }
    \cup UNION { { Join(<<",">>, cs) : cs \in [1..k -> CLAUSES] } : k \in 1..MaxClauses }

DESCENDING_LISTS ==
    { order_versions_in_descending_order(vs) : vs \in StringsOver(VERSIONS, 0, MaxVersions) }

InitVersion ==
    /\ \E c \in ANY_CONSTRAINTS :
          /\ loader = [NewLoader(PUBLIC_REGISTRY_URL_PREFIX) EXCEPT
                          !.module_source = <<"a">>, !.version = c,
                          !.dest_dir = CallerDestDir(<<"a">>),
                          !.module_version_url =
                              VersionsUrl(PUBLIC_REGISTRY_URL_PREFIX, <<"a">>)]
          /\ ref = [w \in WORKERS |->
                      IF w = 1
                      THEN [source |-> <<"a">>, version |-> c,
                            dest_dir |-> CallerDestDir(<<"a">>), inner_module |-> NONE]
                      ELSE NoReference]
    /\ \E vs \in DESCENDING_LISTS :
          modules_versions_cache =
              CachePut(EmptyCache, VersionsUrl(PUBLIC_REGISTRY_URL_PREFIX, <<"a">>), vs)
    /\ disk = {}
    /\ pc = [w \in WORKERS |-> IF w = 1 THEN "find_best_version" ELSE "idle"]
    /\ calls = [w \in WORKERS |-> MaxCalls]
    /\ matched = [w \in WORKERS |-> "none"]
    /\ result = [w \in WORKERS |-> NoResult]
    /\ response = [w \in WORKERS |-> EMPTY]
    /\ requests = [w \in WORKERS |->
                     IF w = 1 THEN {VersionsUrl(PUBLIC_REGISTRY_URL_PREFIX, <<"a">>)} ELSE {}]
    /\ selected_from = [w \in WORKERS |-> NONE]
    /\ fetch_outcome = [w \in WORKERS |-> "none"]
    /\ download_response = [w \in WORKERS |-> NoDownload]
    /\ versions_response = [w \in WORKERS |-> IF w = 1 THEN "ok" ELSE "none"]

NextVersion == FindBestVersion(1)

SpecVersion == InitVersion /\ [][NextVersion]_vars

\* ------------------------------------------------- concurrent resolutions
\* two workers resolve one reference each through the module-level loader
CONCURRENT_REFERENCES ==
    { [source |-> s, version |-> v, dest_dir |-> CallerDestDir(s), inner_module |-> NONE] :
        s \in { <<"a">>, <<"a", SLASH, SLASH, "m">> }, v \in { <<"~>", "1.0">> } }

InitConcurrent ==
    /\ loader = NewLoader(PUBLIC_REGISTRY_URL_PREFIX)
    /\ modules_versions_cache = EmptyCache
    /\ disk = {}
    /\ pc = [w \in WORKERS |-> "idle"]
    /\ ref = [w \in WORKERS |-> NoReference]
    /\ calls = [w \in WORKERS |-> MaxCalls - 1]
    /\ matched = [w \in WORKERS |-> "none"]
    /\ result = [w \in WORKERS |-> NoResult]
    /\ response = [w \in WORKERS |-> EMPTY]
    /\ requests = [w \in WORKERS |-> {}]
    /\ selected_from = [w \in WORKERS |-> NONE]
    /\ fetch_outcome = [w \in WORKERS |-> "none"]
    /\ download_response = [w \in WORKERS |-> NoDownload]
    /\ versions_response = [w \in WORKERS |-> "none"]

NextConcurrent ==
    \E w \in WORKERS :
        \/ CanLoad(w) /\ \E r \in CONCURRENT_REFERENCES : Load(w, r)
        \/ Step(w)

SpecConcurrent == InitConcurrent /\ [][NextConcurrent]_vars

\* ---------------------------------------------------- redirect indirection
\* the caller re-resolves against the nextUrl a resolution returned, for as
\* many hops as the registry keeps answering with a further indirection
REDIRECT_REFERENCES ==
    { [source |-> <<"a">>, version |-> v, dest_dir |-> CallerDestDir(<<"a">>),
       inner_module |-> NONE] : v \in CONSTRAINTS }

\* the caller starts the resolution of a reference
StartChain(w) ==
    /\ pc[w] = "idle"
    /\ \E r \in REDIRECT_REFERENCES : Load(w, r)

\* the caller retries the resolution against the returned nextUrl
FollowRedirect(w) ==
    /\ pc[w] = "done"
    /\ result[w].outcome = "returned"
    /\ Truthy(result[w].next_url)
    /\ calls[w] < MaxHops
    /\ Load(w, [ref[w] EXCEPT !.source = result[w].next_url])

NextRedirect ==
    \/ StartChain(1)
    \/ Step(1)
    \/ FollowRedirect(1)

SpecRedirect == Init /\ [][NextRedirect]_vars

\* ------------------------------------------- HTTP failures of any status
\* _load_module: the download request over an HTTP layer that may raise
\* HTTPError whatever the status of the response, the case the handler of
\* lines 83-86 tests for; raise_for_status still raises on 4xx and 5xx
RequestDownloadRaising(w) ==
    /\ pc[w] = "download"
    /\ requests' = [requests EXCEPT ![w] = @ \cup
          {DownloadUrl(loader.REGISTRY_URL_PREFIX, loader.module_source, loader.best_version)}]
    /\ \E raised \in BOOLEAN, status \in DOWNLOAD_STATUSES, header \in DOWNLOAD_HEADERS :
          /\ RaisesForStatus(status) => raised
          /\ AfterDownload(w, raised, status, header)
    /\ UNCHANGED <<loader, modules_versions_cache, disk, ref, calls, matched,
                   selected_from, fetch_outcome, versions_response>>

NextHttpFailure ==
    \/ CanLoad(1) /\ \E r \in REFERENCES : Load(1, r)
    \/ CheckSourcePrefix(1)
    \/ ChooseEndpoint(1)
    \/ BuildVersionsUrl(1)
    \/ RequestVersions(1)
    \/ WriteCache(1)
    \/ FindBestVersion(1)
    \/ CheckDestDir(1)
    \/ RequestDownloadRaising(1)
    \/ Extract(1)

SpecHttpFailure == Init /\ [][NextHttpFailure]_vars

\* ------------------------------------------------------------------ claims
\* what a ResolvedModule has populated
Populated(x) == x # NONE

IsSuccess(res, dir) ==
    res.outcome = "returned" /\ res.dir = dir /\ res.next_url = NONE /\ res.failed_url = NONE

\* str.endswith
EndsWith(s, suffix) ==
    Len(s) >= Len(suffix) /\ SubSeq(s, Len(s) - Len(suffix) + 1, Len(s)) = suffix

HasInnerSeparator(source) == \E i \in 1..(Len(source) - 1) : source[i] = SLASH /\ source[i + 1] = SLASH

\* v satisfies every clause of constraint (for "latest": v is the list's newest entry)
SatisfiesConstraint(v, constraint, versions) ==
    IF constraint = LATEST THEN v = versions[1]
    ELSE LET clauses == get_version_constraints(constraint)
         IN  \A i \in 1..Len(clauses) : versions_matching(clauses[i], v)

\* b is the first entry of versions that satisfies constraint
IsNewestSatisfying(b, versions, constraint) ==
    \E i \in 1..Len(versions) :
        /\ b = <<versions[i]>>
        /\ SatisfiesConstraint(versions[i], constraint, versions)
        /\ \A j \in 1..(i - 1) : ~SatisfiesConstraint(versions[j], constraint, versions)

SomeSatisfying(versions, constraint) ==
    \E i \in 1..Len(versions) : SatisfiesConstraint(versions[i], constraint, versions)

\* C2: whenever the recognition predicate returned true for a reference with no
\* "//" in its source, the loader's best version is the newest version of the
\* cache entry for the reference's versions URL that satisfies the reference's
\* constraint, and the destination directory ends in
\* {source segments}/{bestVersion}.
C2_BestVersionAfterRecognition ==
    \A w \in WORKERS :
        (/\ matched[w] = "true"
         /\ ~HasInnerSeparator(ref[w].source)
         /\ SomeSatisfying(CacheGet(modules_versions_cache, loader.module_version_url),
                           ref[w].version))
        => /\ IsNewestSatisfying(loader.best_version,
                                 CacheGet(modules_versions_cache, loader.module_version_url),
                                 ref[w].version)
           /\ EndsWith(loader.dest_dir,
                       Join(<<SLASH>>, Split(loader.module_source, <<SLASH>>)
                                        \o <<loader.best_version>>))

\* C4: if the destination directory exists when _load_module is called, the
\* call returns a Success naming that directory, issues no network request and
\* changes neither the cache nor the disk.
C4_ExistingDirNoNetwork ==
    [][\A w \in WORKERS :
          (pc[w] = "load_module" /\ Exists(disk, loader.dest_dir))
          => /\ pc'[w] = "done"
             /\ IsSuccess(result'[w], loader.dest_dir)
             /\ requests'[w] = requests[w]
             /\ modules_versions_cache' = modules_versions_cache
             /\ disk' = disk]_vars

\* C4 witness: a call of _load_module that found the directory on disk has returned
C4_Witness ==
    /\ pc[1] = "done" /\ matched[1] = "true"
    /\ loader.dest_dir \in disk
    /\ IsSuccess(result[1], loader.dest_dir)
    /\ fetch_outcome[1] = "none"
    /\ \A q \in requests[1] : ~EndsWith(q, <<"download">>)

\* C7: every call of _load_module returns a ResolvedModule in which exactly one
\* of directory, nextUrl and failedSource is populated.
C7_ExactlyOneOutcome ==
    \A w \in WORKERS :
        (pc[w] = "done" /\ matched[w] = "true")
        => /\ result[w].outcome = "returned"
           /\ Cardinality({f \in {"dir", "next_url", "failed_url"} :
                              Populated(result[w][f])}) = 1

\* the index of the first "//" of s, 0 when s has none
FirstInnerSeparator(s) ==
    IF HasInnerSeparator(s)
    THEN CHOOSE i \in 1..(Len(s) - 1) :
            /\ s[i] = SLASH /\ s[i + 1] = SLASH
            /\ \A j \in 1..(i - 1) : ~(s[j] = SLASH /\ s[j + 1] = SLASH)
    ELSE 0

BeforeInnerSeparator(s) ==
    IF HasInnerSeparator(s) THEN SubSeq(s, 1, FirstInnerSeparator(s) - 1) ELSE s

AfterInnerSeparator(s) == SubSeq(s, FirstInnerSeparator(s) + 2, Len(s))

\* worker w's recognition has gone past the version-control prefix test
PastPrefixTest(w) == pc[w] \notin {"idle", "is_matching_loader"}

\* worker w's recognition has gone past the versions-URL prefix check
PastUrlCheck(w) == pc[w] \notin {"idle", "is_matching_loader", "endpoint", "versions_url"}

\* C1: for every source beginning with github.com, bitbucket.org or git::, in
\* every state of the cache and the disk, _is_matching_loader returns false.
C1_VcsSourcesNeverMatch ==
    \A w \in WORKERS :
        (/\ PastPrefixTest(w)
         /\ Len(ref[w].source) >= 1
         /\ ref[w].source[1] \in {"github.com", "bitbucket.org", "git::"})
        => pc[w] = "done" /\ matched[w] = "false"

\* C1 witness: a git:: source with a "//" suffix and the private hostname later
\* in the string was refused while the cache and the disk held entries
C1_Witness ==
    /\ pc[1] = "done" /\ matched[1] = "false"
    /\ ref[1].source = <<"git::", SLASH, SLASH, TFC_HOST_NAME>>
    /\ DOMAIN modules_versions_cache # {}
    /\ disk # {}

\* C8: for every source containing "//", after _process_inner_registry_module
\* the module source is the substring before the first "//", innerModule is the
\* whole substring after the first "//", and the destination directory is the
\* previous one truncated at its own first "//"; a source without "//" leaves
\* all three unchanged.
C8_InnerModuleSplit ==
    \A w \in WORKERS :
        pc[w] = "endpoint"
        => IF HasInnerSeparator(ref[w].source)
           THEN /\ loader.module_source = BeforeInnerSeparator(ref[w].source)
                /\ loader.inner_module = AfterInnerSeparator(ref[w].source)
                /\ loader.dest_dir = BeforeInnerSeparator(ref[w].dest_dir)
           ELSE /\ loader.module_source = ref[w].source
                /\ loader.inner_module = ref[w].inner_module
                /\ loader.dest_dir = ref[w].dest_dir

\* C9: for a source that does not name the private-registry hostname the
\* versions URL is {public prefix}/{source}/versions; for one that names it the
\* URL starts with the private prefix and the module source is the source with
\* the hostname removed from its head, the rest unchanged; whatever the loader
\* resolved before.
C9_EndpointBySource ==
    \A w \in WORKERS :
        (PastUrlCheck(w) /\ loader.module_version_url # EMPTY)
        => LET source == BeforeInnerSeparator(ref[w].source)
           IN  IF Len(source) >= 1 /\ source[1] = TFC_HOST_NAME
               THEN /\ loader.module_version_url[1] = PRIVATE_REGISTRY_URL_PREFIX
                    /\ ~(Len(loader.module_source) >= 1
                         /\ loader.module_source[1] = TFC_HOST_NAME)
                    /\ source = <<TFC_HOST_NAME, SLASH>> \o loader.module_source
               ELSE loader.module_version_url =
                       <<PUBLIC_REGISTRY_URL_PREFIX, SLASH>> \o source \o <<SLASH, "versions">>

\* a source that is a local filesystem path: it begins with "/", "./" or "../"
IsLocalPath(source) ==
    \/ (Len(source) >= 1 /\ source[1] = SLASH)
    \/ (Len(source) >= 2 /\ source[1] = "." /\ source[2] = SLASH)
    \/ (Len(source) >= 3 /\ source[1] = "." /\ source[2] = "." /\ source[3] = SLASH)

\* C10: for a source that is a local filesystem path, _is_matching_loader
\* returns false at the versions-URL prefix check, before any cache lookup and
\* before any list-versions request.
C10_LocalPathRefused ==
    \A w \in WORKERS :
        (IsLocalPath(ref[w].source) /\ PastUrlCheck(w))
        => pc[w] = "done" /\ matched[w] = "false" /\ requests[w] = {}

\* C3: for every descending list and every constraint other than "latest", if
\* some version satisfies every clause, _find_best_version returns the first
\* such version in list order; a version that fails any one clause is never
\* returned.
C3_NewestSatisfyingVersion ==
    \A w \in WORKERS :
        (selected_from[w] # NONE /\ ref[w].version # LATEST)
        => /\ SomeSatisfying(selected_from[w], ref[w].version)
              => IsNewestSatisfying(loader.best_version, selected_from[w], ref[w].version)
           /\ \A i \in 1..Len(selected_from[w]) :
                 loader.best_version = <<selected_from[w][i]>>
                 => SatisfiesConstraint(selected_from[w][i], ref[w].version, selected_from[w])

\* C3 witness: the newest version satisfies one clause of two and is passed over
C3_Witness ==
    /\ selected_from[1] = <<"2.0", "1.1">>
    /\ ref[1].version = <<">=", "1.1", ",", "<", "2.0">>
    /\ loader.best_version = <<"1.1">>

\* the two workers' references share their versions URL
SameVersionsUrl ==
    /\ ref[1].source # EMPTY /\ ref[2].source # EMPTY
    /\ BeforeInnerSeparator(ref[1].source) = BeforeInnerSeparator(ref[2].source)

\* C5: when two workers concurrently resolve two references that share the same
\* versions URL, the cache ends with one entry for that URL and both workers
\* select their best version from the same version list.
C5_SingleAuthoritativeList ==
    (/\ SameVersionsUrl
     /\ \A w \in WORKERS : matched[w] = "true" /\ selected_from[w] # NONE)
    => /\ loader.module_version_url \in DOMAIN modules_versions_cache
       /\ selected_from[1] = selected_from[2]

\* C6: the worker whose extraction fails because the directory already exists
\* still ends _load_module with a Success outcome naming a directory, with and
\* without an inner module, and no error escapes.
C6_AlreadyExistsIsSuccess ==
    \A w \in WORKERS :
        (pc[w] = "done" /\ fetch_outcome[w] = "already_exists")
        => /\ result[w].outcome = "returned"
           /\ Populated(result[w].dir)
           /\ result[w].next_url = NONE
           /\ result[w].failed_url = NONE

\* worker w's call of _find_best_version has ended
PastFindBestVersion(w) ==
    \/ selected_from[w] # NONE
    \/ /\ result[w].exc = <<"IndexError">>
       /\ versions_response[w] = "ok"

\* the cached list worker w's _find_best_version read
CachedList(w) == CacheGet(modules_versions_cache, loader.module_version_url)

\* C11: for every cached list, the empty one included, if no version of the
\* list satisfies every clause of the constraint (for "latest": if the list has
\* no entry), _find_best_version returns the string "latest" and does not raise.
C11_FallbackIsLatest ==
    \A w \in WORKERS :
        (/\ pc[w] \in {"load_module", "done"}
         /\ PastFindBestVersion(w)
         /\ ~SomeSatisfying(CachedList(w), ref[w].version))
        => /\ result[w].outcome # "raised"
           /\ loader.best_version = LATEST

\* C12: for every non-empty descending list, when the constraint is exactly
\* "latest" _find_best_version returns the first entry of the list.
C12_LatestIsNewestEntry ==
    \A w \in WORKERS :
        (/\ pc[w] \in {"load_module", "done"}
         /\ PastFindBestVersion(w)
         /\ ref[w].version = LATEST
         /\ CachedList(w) # <<>>)
        => /\ result[w].outcome # "raised"
           /\ loader.best_version = <<CachedList(w)[1]>>

\* C12 witness: "latest" against a list of two different versions chose the first
C12_Witness ==
    /\ pc[1] = "load_module"
    /\ ref[1].version = LATEST
    /\ selected_from[1] = <<"2.0", "1.1">>
    /\ CachedList(1) = <<"2.0", "1.1">>
    /\ loader.best_version = <<"2.0">>

\* worker w's download request failed with a status other than OK and No Content
DownloadFailed(w) ==
    /\ download_response[w].raised
    /\ download_response[w].status_code \notin {HTTP_OK, HTTP_NO_CONTENT}

\* C13: when the download request fails with a status other than OK and No
\* Content, _load_module returns a Failure whose failedSource is the module
\* source of the reference, with no directory and no nextUrl, and the content
\* fetcher is not called.
C13_DownloadFailureTagged ==
    \A w \in WORKERS :
        (pc[w] = "done" /\ DownloadFailed(w))
        => /\ result[w].outcome = "returned"
           /\ result[w].failed_url \in {ref[w].source, loader.module_source}
           /\ result[w].dir = NONE
           /\ result[w].next_url = NONE
           /\ fetch_outcome[w] = "none"

\* worker w's list-versions query failed: an HTTP error status or a malformed body
VersionListUnavailable(w) ==
    versions_response[w] \in {"http_error", "not_json", "empty_modules"}

\* C14: if the list-versions query fails, with an HTTP error status or with a
\* malformed body, _is_matching_loader returns false: no error escapes the
\* loader and no cache entry is written for that versions URL.
C14_VersionListUnavailable ==
    \A w \in WORKERS :
        (pc[w] = "done" /\ VersionListUnavailable(w))
        => /\ matched[w] = "false"
           /\ result[w].outcome # "raised"
           /\ loader.module_version_url \notin DOMAIN modules_versions_cache

\* the versions URL worker w's recognition is about to look up
PendingVersionsUrl(w) == VersionsUrl(loader.REGISTRY_URL_PREFIX, loader.module_source)

\* C15: once the cache holds an entry for a versions URL the entry stays
\* present (no step removes it), and every later sequential recognition of a
\* reference with that versions URL returns true without issuing a
\* list-versions request.
C15_CachedEntryStaysAndMatches ==
    [][/\ DOMAIN modules_versions_cache \subseteq DOMAIN modules_versions_cache'
       /\ \A w \in WORKERS :
             (/\ pc[w] = "versions_url"
              /\ PendingVersionsUrl(w) \in DOMAIN modules_versions_cache)
             => /\ matched'[w] = "true"
                /\ pc'[w] = "load_module"
                /\ requests'[w] = {}
                /\ versions_response'[w] = "none"]_vars

\* C15 witness: a second resolution found the versions URL the first one
\* cached and was recognised with no request issued
C15_Witness ==
    /\ calls[1] = 2
    /\ pc[1] = "load_module" /\ matched[1] = "true"
    /\ loader.module_version_url \in DOMAIN modules_versions_cache
    /\ versions_response[1] = "none"
    /\ requests[1] = {}

\* C16: the chain of X-Terraform-Get indirections is bounded by a fixed
\* maximum hop count: when the registry answers every download request with a
\* non-archive header, the resolution that follows MAX_REDIRECT_HOPS redirects
\* in a row ends in a failure and returns no further nextUrl.
C16_RedirectChainBounded ==
    \A w \in WORKERS :
        (pc[w] = "done" /\ calls[w] > MAX_REDIRECT_HOPS)
        => ~Truthy(result[w].next_url)

\* the directory a Success names for the loader's destination directory and
\* inner module: {destinationDirectory}/{innerModule}, or the directory itself
ExpectedDir(l) ==
    IF Truthy(l.inner_module) THEN PathJoin(<<l.dest_dir, l.inner_module>>) ELSE l.dest_dir

\* C17: the call of _load_module that downloads and extracts the archive and a
\* later call for the same reference that finds the destination directory on
\* disk return the same directory: {destinationDirectory}/{innerModule} for a
\* reference with an inner module, {destinationDirectory} for one without.
C17_SameDirOnBothPaths ==
    \A w \in WORKERS :
        (/\ pc[w] = "done" /\ matched[w] = "true"
         /\ result[w].outcome = "returned"
         /\ Populated(result[w].dir))
        => result[w].dir = ExpectedDir(loader)

\* p is a prefix of s
IsPrefix(p, s) == Len(p) <= Len(s) /\ SubSeq(s, 1, Len(p)) = p

\* the instance fields a resolution of worker w's reference computes when no
\* other resolution writes them: inner module split, then endpoint choice
OwnFields(w) ==
    SelectEndpoint(_process_inner_registry_module(
        [NewLoader(PUBLIC_REGISTRY_URL_PREFIX) EXCEPT
            !.module_source = ref[w].source, !.version = ref[w].version,
            !.dest_dir = ref[w].dest_dir, !.inner_module = ref[w].inner_module]))

\* the directories a Success of worker w may name, whatever the best version
OwnDirs(w) ==
    LET own == OwnFields(w)
    IN  IF Truthy(own.inner_module)
        THEN {own.dest_dir, PathJoin(<<own.dest_dir, own.inner_module>>)}
        ELSE {own.dest_dir}
             \cup {RegistryDestDir(own.module_source, <<v>>) : v \in VERSIONS}
             \cup {RegistryDestDir(own.module_source, LATEST)}

\* C18: when two workers resolve two different references through the
\* module-level loader, under every interleaving each worker's versions URL,
\* download URL and returned directory are built from its own reference's
\* source, endpoint and destination directory, never from the other worker's.
C18_WorkersDoNotInterfere ==
    \A w \in WORKERS :
        LET own == OwnFields(w)
        IN  /\ \A q \in requests[w] :
                  /\ EndsWith(q, <<"versions">>)
                     => q = VersionsUrl(own.REGISTRY_URL_PREFIX, own.module_source)
                  /\ EndsWith(q, <<"download">>)
                     => IsPrefix(<<own.REGISTRY_URL_PREFIX, SLASH>> \o own.module_source
                                   \o <<SLASH>>, q)
            /\ (pc[w] = "done" /\ result[w].outcome = "returned"
                  /\ Populated(result[w].dir))
               => result[w].dir \in OwnDirs(w)

\* worker w's download request raised an HTTP failure with status OK or No Content
AcceptableFailure(w) ==
    /\ download_response[w].raised
    /\ download_response[w].status_code \in {HTTP_OK, HTTP_NO_CONTENT}

====
